---- MODULE Spec2Model ----
(***************************************************************************)
(* Model of the "Distribute and Shorten Strips" add-on (src/__init__.py): *)
(* the operator ShortenAndDistributeStrips.execute acting on the host's    *)
(* sequence editor, and the register()/unregister() lifecycle.             *)
(*                                                                         *)
(* The host is modelled as the attribute store the add-on reads and        *)
(* writes: a strip is a record of name, frame_start, frame_final_duration, *)
(* channel and select; a strip object is identified by its index in        *)
(* sequencer.sequences, its name is a separate unique key.                 *)
(***************************************************************************)
EXTENDS Integers, Sequences, FiniteSets, TLC

\* ---------------------------------------------------------------- bounds
NStrips == 3        \* strips in the sequence editor
MaxDur == 5         \* the active strip's initial frame_final_duration ranges over 0..MaxDur
OtherDur == 2       \* initial frame_final_duration of the other strips (execute never reads it)
MaxCalls == 1       \* invocations of the operator in one behaviour
MaxRuns == 5        \* executions of the script body (module generations)

FrameStarts == {0, 3}   \* initial frame_start values
Channels == {1, 2}      \* initial channel values

None == 0           \* Python's None for a strip reference / a class reference

VARIABLES
  sequencer,              \* scene.sequence_editor exists (BOOLEAN)
  sequences,              \* sequencer.sequences: Seq of strip records
  active_strip,           \* sequencer.active_strip: an index of sequences, or None
  result,                 \* what the last execute returned
  report,                 \* severity of the last self.report of the last execute
  processed_strip_names,  \* the names appended by the last execute's loop
  pre_sequences,          \* sequences as the last execute found them
  pre_active,             \* active_strip as the last execute found it
  calls,                  \* executes so far
  gen,                    \* the current execution of the script body
  registered,             \* the generation of the class registered under bl_idname, or None
  has_strip_menu,         \* hasattr(bpy.types, "SEQUENCER_MT_strip")
  draw_funcs,             \* SEQUENCER_MT_strip's appended draw functions (generations of menu_func)
  raised,                 \* the exception the last lifecycle call let escape
  last_call,              \* the last lifecycle call
  menu_at_register        \* has_strip_menu as the last register() found it

execVars == <<sequencer, sequences, active_strip, result, report,
              processed_strip_names, pre_sequences, pre_active, calls>>
regVars == <<gen, registered, has_strip_menu, draw_funcs, raised, last_call,
             menu_at_register>>
vars == <<execVars, regVars>>

\* ------------------------------------------------------ pure helpers
Range(s) == {s[i] : i \in 1..Len(s)}

\* Every list holding each element of S exactly once: what list(set(...)) may
\* return, the iteration order of a set of host objects being unspecified.
ListsOfSet(S) ==
  {l \in [1..Cardinality(S) -> S] : \A i, j \in 1..Cardinality(S) : l[i] = l[j] => i = j}

\* int(round(d / n)) for d >= 0, n >= 1: Python 3 rounds an exact half to the
\* even integer.
PyRound(d, n) ==
  LET q == d \div n
      r == d % n
  IN  IF 2 * r < n THEN q
      ELSE IF 2 * r > n THEN q + 1
      ELSE IF q % 2 = 0 THEN q ELSE q + 1

Max(a, b) == IF a >= b THEN a ELSE b

new_duration_half_up(d, n) == Max(1, (2 * d + n) \div (2 * n))

new_duration_floor(d, n) == Max(1, d \div n)

new_duration_per_strip(d, n) == Max(1, PyRound(d, n))

\* The guard on the active strip's duration.
DurationInvalidStrict(d) == d < 0

DurationInvalid(d) == d <= 0

\* key=lambda s: (s.channel, s.frame_start), compared as Python compares tuples.
KeyLEStartFirst(a, b) ==
  \/ a.frame_start < b.frame_start
  \/ a.frame_start = b.frame_start /\ a.channel <= b.channel

KeyLE(a, b) ==
  \/ a.channel < b.channel
  \/ a.channel = b.channel /\ a.frame_start <= b.frame_start

\* list.sort is stable: x goes after every element whose key is <= its own.
RECURSIVE Insert(_, _, _)
Insert(seqs, x, sorted) ==
  IF sorted = <<>> THEN <<x>>
  ELSE IF KeyLE(seqs[Head(sorted)], seqs[x])
       THEN <<Head(sorted)>> \o Insert(seqs, x, Tail(sorted))
       ELSE <<x>> \o sorted

RECURSIVE StableSort(_, _)
StableSort(seqs, list) ==
  IF list = <<>> THEN <<>>
  ELSE Insert(seqs, list[Len(list)],
              StableSort(seqs, SubSeq(list, 1, Len(list) - 1)))

\* sequencer.sequences.get(name): the strip of that name, or None.
Get(seqs, name) ==
  IF \E i \in 1..Len(seqs) : seqs[i].name = name
  THEN CHOOSE i \in 1..Len(seqs) : seqs[i].name = name
  ELSE None

\* ------------------------------------------------- execute, step by step
\* selected_strips = [s for s in sequencer.sequences if s.select and s != active_strip]
RECURSIVE selected_from(_, _, _)
selected_from(seqs, active, i) ==
  IF i > Len(seqs) THEN <<>>
  ELSE (IF seqs[i].select /\ i # active THEN <<i>> ELSE <<>>)
       \o selected_from(seqs, active, i + 1)

RECURSIVE others_from(_, _, _)
others_from(seqs, active, i) ==
  IF i > Len(seqs) THEN <<>>
  ELSE (IF i # active THEN <<i>> ELSE <<>>) \o others_from(seqs, active, i + 1)

selected_strips_unfiltered(seqs, active) == others_from(seqs, active, 1)

selected_strips(seqs, active) == selected_from(seqs, active, 1)

\* The three attribute writes of the loop body.
Adjust(strip, p, marker, ch) ==
  [strip EXCEPT !.frame_final_duration = p, !.frame_start = marker, !.channel = ch]

\* current_frame_marker += new_duration_per_strip
AdvanceWithGap(marker, p) == marker + p + 1

Advance(marker, p) == marker + p

\* for strip in strips_to_process: ... (the strips are written one by one)
RECURSIVE Loop(_, _, _, _, _)
Loop(seqs, todo, marker, p, ch) ==
  IF todo = <<>> THEN seqs
  ELSE Loop([seqs EXCEPT ![Head(todo)] = Adjust(@, p, marker, ch)],
            Tail(todo), Advance(marker, p), p, ch)

\* bpy.ops.sequencer.select_all(action='DESELECT')
DeselectAll(seqs) == [i \in 1..Len(seqs) |-> [seqs[i] EXCEPT !.select = FALSE]]

\* for name in processed_strip_names: s = sequences.get(name); if s: s.select = True
RECURSIVE SelectByName(_, _)
SelectByName(seqs, names) ==
  IF names = <<>> THEN seqs
  ELSE LET s == Get(seqs, Head(names))
       IN  SelectByName(IF s # None THEN [seqs EXCEPT ![s].select = TRUE] ELSE seqs,
                        Tail(names))

ReselectSkippingFirst(seqs, names) ==
  SelectByName(DeselectAll(seqs), IF names = <<>> THEN names ELSE Tail(names))

Reselect(seqs, names) == SelectByName(DeselectAll(seqs), names)

\* The fallback's search: the first processed name whose strip now sits at the
\* original start frame and channel, or None.
RECURSIVE FirstAt(_, _, _, _)
FirstAt(seqs, names, start, ch) ==
  IF names = <<>> THEN None
  ELSE LET s_cand == Get(seqs, Head(names))
       IN  IF s_cand # None /\ seqs[s_cand].frame_start = start
                            /\ seqs[s_cand].channel = ch
           THEN Head(names)
           ELSE FirstAt(seqs, Tail(names), start, ch)

\* "Restore active strip status": the value of sequencer.active_strip afterwards.
\* A name is never None: names are 1..NStrips.
RestoreActivePreferFirst(seqs, names, active_name, start, ch, active) ==
  IF names # <<>> /\ Get(seqs, names[1]) # None THEN Get(seqs, names[1]) ELSE active

RestoreActive(seqs, names, active_name, start, ch, active) ==
  LET final_active_strip == Get(seqs, active_name)
  IN  IF final_active_strip # None THEN final_active_strip
      ELSE IF names # <<>>
      THEN LET first_processed_strip_name == FirstAt(seqs, names, start, ch)
           IN  IF first_processed_strip_name # None
               THEN (IF Get(seqs, first_processed_strip_name) # None
                     THEN Get(seqs, first_processed_strip_name) ELSE active)
               ELSE IF Get(seqs, names[1]) # None THEN Get(seqs, names[1])
               ELSE active
      ELSE active

\* A guard's early return: report, return {'CANCELLED'}, nothing written.
Cancel(severity) ==
  /\ result' = "CANCELLED"
  /\ report' = severity
  /\ processed_strip_names' = <<>>
  /\ UNCHANGED <<sequencer, sequences, active_strip>>

\* ShortenAndDistributeStrips.execute
Execute ==
  /\ calls < MaxCalls
  /\ calls' = calls + 1
  /\ pre_sequences' = sequences
  /\ pre_active' = active_strip
  /\ UNCHANGED regVars
  /\ IF ~sequencer THEN Cancel("WARNING")
     ELSE IF active_strip = None THEN Cancel("WARNING")
     ELSE \E strips_to_process \in
               ListsOfSet(Range(<<active_strip>> \o selected_strips(sequences, active_strip))) :
            LET num_strips == Len(strips_to_process)
                original_start_frame == sequences[active_strip].frame_start
                original_channel == sequences[active_strip].channel
                original_total_duration == sequences[active_strip].frame_final_duration
            IN  IF strips_to_process = <<>> THEN Cancel("INFO")
                ELSE IF num_strips = 0 THEN Cancel("WARNING")
                ELSE IF DurationInvalid(original_total_duration) THEN Cancel("WARNING")
                ELSE
                  \* each value is computed once, in the order of the code
                  \E p \in {new_duration_per_strip(original_total_duration, num_strips)} :
                  \E sorted \in {StableSort(sequences, strips_to_process)} :
                  \E names \in {[k \in 1..Len(sorted) |-> sequences[sorted[k]].name]} :
                  \E original_active_strip_name \in {sequences[active_strip].name} :
                  \E written \in {Loop(sequences, sorted, original_start_frame, p,
                                       original_channel)} :
                  \E reselected \in {Reselect(written, names)} :
                      /\ sequences' = reselected
                      /\ active_strip' = RestoreActive(reselected, names,
                                            original_active_strip_name,
                                            original_start_frame, original_channel,
                                            active_strip)
                      /\ processed_strip_names' = names
                      /\ report' = "INFO"
                      /\ result' = "FINISHED"
                      /\ UNCHANGED sequencer

\* ---------------------------------------------------- the host's states
\* Every timeline of NStrips strips named 1..NStrips with the given active strip.
Timelines(active) ==
  {[i \in 1..NStrips |->
      [name |-> i, frame_start |-> st[i], channel |-> ch[i], select |-> sel[i],
       frame_final_duration |-> IF i = active THEN d ELSE OtherDur]] :
     st \in [1..NStrips -> FrameStarts], ch \in [1..NStrips -> Channels],
     sel \in [1..NStrips -> BOOLEAN], d \in 0..MaxDur}

RegClean ==
  /\ gen = 1
  /\ registered = None
  /\ has_strip_menu = TRUE
  /\ draw_funcs = <<>>
  /\ raised = "none"
  /\ last_call = "none"
  /\ menu_at_register = FALSE

Init ==
  /\ sequencer \in BOOLEAN
  /\ IF sequencer
     THEN /\ active_strip \in {None} \cup (1..NStrips)
          /\ sequences \in Timelines(active_strip)
     ELSE /\ sequences = <<>>
          /\ active_strip = None
  /\ result = "NONE"
  /\ report = "NONE"
  /\ processed_strip_names = <<>>
  /\ pre_sequences = sequences
  /\ pre_active = active_strip
  /\ calls = 0
  /\ RegClean

Next == Execute

Spec == Init /\ [][Next]_vars

\* --------------------------------------------------- install / uninstall
\* Each execution of the script body (an import as an add-on, or a run from the
\* text editor) defines the class ShortenAndDistributeStrips and the function
\* menu_func anew: generation g's objects are distinct from every earlier one's.
\* A lifecycle state is [registered, draw_funcs, raised, menu_at_register].
RegState ==
  [registered |-> registered, draw_funcs |-> draw_funcs, raised |-> raised,
   menu_at_register |-> menu_at_register]

\* list.remove(x): drops the first occurrence of x; without one the list is unchanged
\* (the ValueError is handled by the caller).
RECURSIVE RemoveFirst(_, _)
RemoveFirst(list, x) ==
  IF list = <<>> THEN <<>>
  ELSE IF Head(list) = x THEN Tail(list)
  ELSE <<Head(list)>> \o RemoveFirst(Tail(list), x)

\* register() of generation g: register_class raises ValueError for a class object
\* that is registered already and replaces a class of an earlier generation
\* registered under the same bl_idname; the menu entry is appended only when the
\* menu exists. The exception is not handled: nothing after it runs.
register(g, st, menu) ==
  IF st.registered = g
  THEN [st EXCEPT !.raised = "ValueError"]
  ELSE [registered |-> g,
        draw_funcs |-> IF menu THEN Append(st.draw_funcs, g) ELSE st.draw_funcs,
        raised |-> "none",
        menu_at_register |-> menu]

\* unregister() of generation g: both failures are handled.
unregister(g, st, menu) ==
  [st EXCEPT !.draw_funcs = IF menu THEN RemoveFirst(@, g) ELSE @,
             !.registered = IF @ = g THEN None ELSE @,
             !.raised = "none"]

SetReg(st) ==
  /\ registered' = st.registered
  /\ draw_funcs' = st.draw_funcs
  /\ raised' = st.raised
  /\ menu_at_register' = st.menu_at_register

\* The host enables the add-on: register() of the loaded module.
Register ==
  /\ SetReg(register(gen, RegState, has_strip_menu))
  /\ last_call' = "register"
  /\ UNCHANGED <<gen, has_strip_menu, execVars>>

\* The host disables the add-on: unregister() of the loaded module.
Unregister ==
  /\ SetReg(unregister(gen, RegState, has_strip_menu))
  /\ last_call' = "unregister"
  /\ UNCHANGED <<gen, has_strip_menu, execVars>>

\* The script is run from the text editor: the body is executed again, then the
\* __main__ block calls unregister() (any exception handled) and register().
RunScript ==
  /\ gen < MaxRuns
  /\ gen' = gen + 1
  /\ SetReg(register(gen + 1, unregister(gen + 1, RegState, has_strip_menu),
                     has_strip_menu))
  /\ last_call' = "main"
  /\ UNCHANGED <<has_strip_menu, execVars>>

\* The host finishes initialising the sequencer UI: the strip menu comes to exist.
MenuAppears ==
  /\ ~has_strip_menu
  /\ has_strip_menu' = TRUE
  /\ UNCHANGED <<gen, registered, draw_funcs, raised, last_call, menu_at_register,
                 execVars>>

InitReg ==
  /\ sequencer = FALSE
  /\ sequences = <<>>
  /\ active_strip = None
  /\ result = "NONE"
  /\ report = "NONE"
  /\ processed_strip_names = <<>>
  /\ pre_sequences = <<>>
  /\ pre_active = None
  /\ calls = 0
  /\ gen = 1
  /\ registered = None
  /\ has_strip_menu \in BOOLEAN
  /\ draw_funcs = <<>>
  /\ raised = "none"
  /\ last_call = "none"
  /\ menu_at_register = FALSE

NextReg == Register \/ Unregister \/ RunScript \/ MenuAppears

SpecReg == InitReg /\ [][NextReg]_vars

\* ------------------------------------------------------------ the claims
\* What the claims speak of, read off the state the last execute found.
Finished == result = "FINISHED"

WorkingSet ==
  IF pre_active = None THEN {}
  ELSE {pre_active} \cup {i \in 1..Len(pre_sequences) : pre_sequences[i].select}

N == Cardinality(WorkingSet)

D == pre_sequences[pre_active].frame_final_duration

S == pre_sequences[pre_active].frame_start

C == pre_sequences[pre_active].channel

Abs(x) == IF x < 0 THEN -x ELSE x

\* The integer nearest to D/N, an exact half going to the even neighbour.
NearestHalfEven ==
  CHOOSE r \in 0..D : /\ 2 * Abs(r * N - D) <= N
                      /\ 2 * Abs(r * N - D) = N => r % 2 = 0

\* The integer nearest to D/N, an exact half going up.
NearestHalfUp ==
  CHOOSE r \in 0..(D + 1) : 2 * (r * N - D) <= N /\ 2 * (D - r * N) < N

\* The strip of the given name after the call.
Named(name) == CHOOSE i \in 1..Len(sequences) : sequences[i].name = name

RECURSIVE SumDur(_)
SumDur(names) ==
  IF names = <<>> THEN 0
  ELSE sequences[Named(Head(names))].frame_final_duration + SumDur(Tail(names))

\* C1 as written: whenever an active strip with final duration D > 0 exists the
\* call succeeds, and every strip of the working set (the active strip counted
\* once, selected or not) ends with final duration max(1, round(D/N)), an exact
\* half rounding up.
C1_DurationHalfUp ==
  calls > 0 /\ sequencer /\ pre_active # None /\ D > 0 =>
    /\ Finished
    /\ \A i \in WorkingSet : sequences[i].frame_final_duration = Max(1, NearestHalfUp)

\* C1 amended: the same, with an exact half rounding to the even integer.
C1_DurationHalfEven ==
  calls > 0 /\ sequencer /\ pre_active # None /\ D > 0 =>
    /\ Finished
    /\ \A i \in WorkingSet : sequences[i].frame_final_duration = Max(1, NearestHalfEven)

\* An unselected active strip of duration 5 and one selected strip: 5/2 = 2.5,
\* and both strips end 2 frames long.
C1_Witness ==
  /\ Finished
  /\ ~pre_sequences[pre_active].select
  /\ N = 2 /\ D = 5
  /\ \A i \in WorkingSet : sequences[i].frame_final_duration = 2

\* C2: after a successful call the k-th processed strip starts at S + k*p (k from
\* 0) on channel C and is p frames long, the processed strips being exactly the
\* working set; so their frame ranges begin at S, leave no gap and do not overlap.
C2_Contiguous ==
  Finished =>
    LET names == processed_strip_names
        p == sequences[Named(names[1])].frame_final_duration
    IN  /\ Len(names) = N
        /\ {Named(names[k]) : k \in 1..Len(names)} = WorkingSet
        /\ \A k \in 1..Len(names) :
             /\ sequences[Named(names[k])].frame_start = S + (k - 1) * p
             /\ sequences[Named(names[k])].frame_final_duration = p
             /\ sequences[Named(names[k])].channel = C
        /\ \A a, b \in WorkingSet :
             a # b => \/ sequences[a].frame_start + sequences[a].frame_final_duration
                           <= sequences[b].frame_start
                      \/ sequences[b].frame_start + sequences[b].frame_final_duration
                           <= sequences[a].frame_start

\* Three strips processed, the active one not first and itself moved, one of
\* them brought over from another channel.
C2_Witness ==
  /\ Finished
  /\ N = 3
  /\ processed_strip_names[1] # pre_sequences[pre_active].name
  /\ sequences[pre_active].frame_start # S
  /\ \E i \in WorkingSet : pre_sequences[i].channel # C

\* C3: after a successful call, a strip whose (channel, start frame) before the
\* call was lexicographically smaller than another's starts strictly earlier.
C3_OrderByChannelThenStart ==
  Finished =>
    \A a, b \in WorkingSet :
      (\/ pre_sequences[a].channel < pre_sequences[b].channel
       \/ /\ pre_sequences[a].channel = pre_sequences[b].channel
          /\ pre_sequences[a].frame_start < pre_sequences[b].frame_start)
      => sequences[a].frame_start < sequences[b].frame_start

\* Two processed strips whose channel order and start order disagree: the
\* channel decides.
C3_Witness ==
  /\ Finished
  /\ \E a, b \in WorkingSet :
       /\ pre_sequences[a].channel < pre_sequences[b].channel
       /\ pre_sequences[a].frame_start > pre_sequences[b].frame_start
       /\ sequences[a].frame_start < sequences[b].frame_start

\* C4: a call without an editor, without an active strip or with an active strip
\* of duration <= 0 returns CANCELLED after a WARNING and changes no strip and
\* not the active strip; and strips change only in calls that return FINISHED.
C4_GuardsCancelUnchanged ==
  calls > 0 =>
    /\ (~sequencer \/ pre_active = None \/ D <= 0) =>
         /\ result = "CANCELLED"
         /\ report = "WARNING"
         /\ sequences = pre_sequences
         /\ active_strip = pre_active
    /\ (sequences # pre_sequences \/ active_strip # pre_active) => Finished

\* An active strip of duration 0 with another strip selected: cancelled.
C4_Witness ==
  /\ calls > 0 /\ sequencer /\ pre_active # None
  /\ D = 0
  /\ N >= 2
  /\ result = "CANCELLED" /\ report = "WARNING"
  /\ sequences = pre_sequences

\* C5 as written: after a successful call the new durations of the processed
\* strips sum to within N/2 of D, for every D >= 1 and N >= 1.
C5_DriftAtMostHalfN ==
  Finished => 2 * Abs(SumDur(processed_strip_names) - D) <= N

\* C5 amended: the sum is within N/2 of D whenever 2*D >= N; when 2*D < N every
\* duration is 1 and the sum is N.
C5_DriftAmended ==
  Finished =>
    /\ 2 * D >= N => 2 * Abs(SumDur(processed_strip_names) - D) <= N
    /\ 2 * D < N => SumDur(processed_strip_names) = N

\* D = 5 over three strips: each 2 frames, 6 in all.
C5_Witness ==
  /\ Finished
  /\ N = 3 /\ D = 5
  /\ SumDur(processed_strip_names) = 6

\* C6: after a successful call the selected strips are exactly the working set.
C6_SelectionIsWorkingSet ==
  Finished => {i \in 1..Len(sequences) : sequences[i].select} = WorkingSet

\* The active strip was not selected, another strip was, a third is outside.
C6_Witness ==
  /\ Finished
  /\ ~pre_sequences[pre_active].select
  /\ sequences[pre_active].select
  /\ N = 2
  /\ \E i \in 1..Len(sequences) : i \notin WorkingSet /\ ~sequences[i].select

\* C7: after a successful call the active strip is the strip named as the
\* original active strip was, when there is one; else a processed strip at the
\* original start frame and channel, when there is one; else the strip of the
\* first processed name; and it is always one of the processed strips.
C7_ActiveRestored ==
  Finished =>
    LET nm == pre_sequences[pre_active].name
        byName == {i \in 1..Len(sequences) : sequences[i].name = nm}
        atStart == {i \in WorkingSet : /\ sequences[i].frame_start = S
                                       /\ sequences[i].channel = C}
    IN  /\ byName # {} => active_strip \in byName
        /\ byName = {} /\ atStart # {} => active_strip \in atStart
        /\ byName = {} /\ atStart = {} =>
             sequences[active_strip].name = processed_strip_names[1]
        /\ active_strip \in WorkingSet

\* The original active strip is not the first processed strip, so the strip now
\* at the original start frame is another one.
C7_Witness ==
  /\ Finished
  /\ N >= 2
  /\ processed_strip_names[1] # pre_sequences[pre_active].name
  /\ sequences[active_strip].name = pre_sequences[pre_active].name
  /\ sequences[active_strip].frame_start # S

\* C8: unregister() never raises; after a reload (unregister() then register())
\* nothing was raised, the class is registered and the strip menu holds at most
\* one entry for the operator: one if the menu existed at that register(), else
\* none.
C8_ReloadLifecycle ==
  /\ last_call = "unregister" => raised = "none"
  /\ last_call = "main" =>
       /\ raised = "none"
       /\ registered = gen
       /\ Len(draw_funcs) <= 1
       /\ Len(draw_funcs) = IF menu_at_register THEN 1 ELSE 0

\* C9: strips of the working set with equal (channel, start frame) before the
\* call come out in the order the working set was built in: the active strip
\* first, then the other selected strips in the order of sequencer.sequences.
C9_TiesInBuildOrder ==
  Finished =>
    \A a, b \in WorkingSet :
      /\ a # b
      /\ pre_sequences[a].channel = pre_sequences[b].channel
      /\ pre_sequences[a].frame_start = pre_sequences[b].frame_start
      /\ (a = pre_active \/ (b # pre_active /\ a < b))
      => sequences[a].frame_start < sequences[b].frame_start

\* C10: a successful call leaves the number of strips and every name as they
\* were, and the start frame, duration and channel of every strip outside the
\* working set.
C10_Frame ==
  Finished =>
    /\ Len(sequences) = Len(pre_sequences)
    /\ \A i \in 1..Len(sequences) :
         /\ sequences[i].name = pre_sequences[i].name
         /\ i \notin WorkingSet =>
              /\ sequences[i].frame_start = pre_sequences[i].frame_start
              /\ sequences[i].frame_final_duration = pre_sequences[i].frame_final_duration
              /\ sequences[i].channel = pre_sequences[i].channel

\* Two strips processed and rewritten while a third, unselected, stays put.
C10_Witness ==
  /\ Finished
  /\ N = 2
  /\ \E i \in WorkingSet : sequences[i].frame_start # pre_sequences[i].frame_start
  /\ \E i \in 1..Len(sequences) :
       /\ i \notin WorkingSet
       /\ sequences[i].frame_final_duration = pre_sequences[i].frame_final_duration
       /\ sequences[i].frame_final_duration # sequences[pre_active].frame_final_duration
====
